---- MODULE Spec2Model ----
(***************************************************************************)
(* Water Quality Monitor: the authentication and profile-completion state  *)
(* machine.  The Express backend (server.js) keeps the accounts in one     *)
(* JSON file that every handler reads and rewrites as a whole; the React   *)
(* client (AuthContext.jsx and the pages) keeps the session in component   *)
(* state and in one localStorage key.  A request is in flight between the  *)
(* moment a page handler issues it and the moment the client processes its *)
(* response; the server handlers that await (bcrypt.hash, bcrypt.compare)  *)
(* are split at the await, the synchronous ones are single steps.          *)
(***************************************************************************)
EXTENDS Naturals, Sequences, FiniteSets, TLC

\* ---------------------------------------------------------------- bounds
MaxReqs == 2        \* requests in flight at once
MaxOps == 3         \* requests the client issues in one run
MaxClock == 1       \* the server clock runs 0..MaxClock
MaxUsers == 3       \* records the account file may hold

\* ---------------------------------------------------------------- inputs
NoEmail == ""                       \* JS null: no current user, no marker
Emails == {"a@x.com", "b@x.com"}
Passwords == {"secret1", "secret2"}
GoogleTokens == {"tok-b", "forged"}
None == <<>>                        \* JS null for an object-valued field
Some(x) == <<x>>
ProfileInputs ==
    { [fullName |-> "A B", phone |-> "9876543210", city |-> "Pune", state |-> "Maharashtra"],
      [fullName |-> "C D", phone |-> "9876543211", city |-> "Delhi", state |-> "Delhi"] }
Pages == {"/login", "/setup", "/dashboard"}
Paths == Pages \cup {"/", "/unknown"}

ReqIds == 1..MaxOps

VARIABLES
    users,          \* data/users.json: the array of account records
    now,            \* the server clock as new Date() last read it
    reqs,           \* the requests in flight, by order of issue
    issued,         \* how many requests the client has issued
    currentUser,    \* AuthProvider state: email or NoEmail
    profile,        \* AuthProvider state: None or Some(profile)
    loading,        \* AuthProvider state: TRUE while the session is restored
    marker,         \* localStorage[SESSION_KEY]
    path,           \* the router's location
    saving,         \* ProfileSetupPage state of the mounted instance
    last,           \* what the last client-side step returned to its caller
    ackedAccounts,  \* emails whose creation the server acknowledged
    ackedProfile    \* per email, the profile of the last acknowledged save

vars == <<users, now, reqs, issued, currentUser, profile, loading, marker, path,
          saving, last, ackedAccounts, ackedProfile>>

serverVars == <<users, now, ackedAccounts, ackedProfile>>
storeVars == <<users, now, ackedAccounts, ackedProfile, issued>>
clientVars == <<currentUser, profile, loading, marker, path, saving, last>>

\* ------------------------------------------------------ identity verifier
\* GOOGLE_CLIENT.verifyIdToken: the payload's email, or a rejection.
VerifyIdToken(tok) == IF tok = "tok-b" THEN "b@x.com" ELSE NoEmail

\* ------------------------------------------------------------- bcryptjs
BcryptHash(p) == <<"$2a$10$", p>>
\* bcrypt.compare(s, hash): rejects when hash is not a string (null).
BcryptCompare(p, h) ==
    IF h = None THEN "throws" ELSE IF h = BcryptHash(p) THEN "match" ELSE "mismatch"

\* ------------------------------------------------------------- the store
RECURSIVE FindIndex(_, _, _)
FindIndex(us, e, i) ==
    IF i > Len(us) THEN 0
    ELSE IF us[i].email = e THEN i ELSE FindIndex(us, e, i + 1)

\* users.find(u => u.email === email): the first match, or None
Find(us, e) == IF FindIndex(us, e, 1) = 0 THEN None ELSE Some(us[FindIndex(us, e, 1)])

NewUser(e, p, t) ==
    [email |-> e, password |-> BcryptHash(p), googleAuth |-> FALSE,
     createdAt |-> t, profile |-> None]

NewGoogleUser(e, t) ==
    [email |-> e, password |-> None, googleAuth |-> TRUE,
     createdAt |-> t, profile |-> None]

\* { completedAt: new Date().toISOString(), ...profile }: the spread last.
StampProfileClientWins(pd, t) ==
    [f \in (DOMAIN pd) \cup {"completedAt"} |->
        IF f \in DOMAIN pd THEN pd[f] ELSE t]

\* { ...profile, completedAt: new Date().toISOString() }
StampProfile(pd, t) ==
    [f \in (DOMAIN pd) \cup {"completedAt"} |->
        IF f = "completedAt" THEN t ELSE pd[f]]

\* users.map(u => u): nothing masked.
RedactNothing(u) == u

\* users.map(({ password, ...rest }) => rest)
Redact(u) == [f \in (DOMAIN u) \ {"password"} |-> u[f]]
SafeUsers(us) == [i \in 1..Len(us) |-> Redact(us[i])]

\* ------------------------------------------------------------- requests
NoReq ==
    [op |-> "none", email |-> NoEmail, password |-> "", token |-> "",
     pdata |-> None, stage |-> "free", snap |-> <<>>, status |-> 0,
     remail |-> NoEmail, rprofile |-> None, rusers |-> <<>>, orphan |-> FALSE]

NewReq(op, e, p, tok, pd) ==
    [NoReq EXCEPT !.op = op, !.email = e, !.password = p, !.token = tok,
                  !.pdata = pd, !.stage = "sent"]

InFlight(rs) == {i \in ReqIds : rs[i].op # "none"}
CanFetch(rs) == issued < MaxOps /\ Cardinality(InFlight(rs)) < MaxReqs

\* fetch(): the request reaches the server, or the transport fails (status 0)
Fetch(rs, r, up) ==
    [rs EXCEPT ![issued + 1] =
        IF up THEN r ELSE [r EXCEPT !.stage = "responded", !.status = 0]]

\* res.status(st).json(...): the response travels back, unless the page that
\* issued the request is gone
Reply(i, st, em, pr, us) ==
    [reqs EXCEPT ![i] =
        IF @.orphan THEN NoReq
        ELSE [@ EXCEPT !.stage = "responded", !.status = st, !.remail = em,
                       !.rprofile = pr, !.rusers = us, !.snap = <<>>]]

Ok(st) == st >= 200 /\ st < 300

\* ------------------------------------------------------------ the routes
\* Route with a ProtectedRoute that checks the login only.
RouteLoginOnly(p, cu, pr) ==
    IF p = "/login" THEN
        IF cu # NoEmail THEN (IF pr # None THEN "/dashboard" ELSE "/setup") ELSE p
    ELSE IF p = "/setup" THEN
        IF cu = NoEmail THEN "/login"
        ELSE IF pr # None THEN "/dashboard" ELSE p
    ELSE IF p = "/dashboard" THEN
        IF cu = NoEmail THEN "/login" ELSE p
    ELSE "/login"

\* Route with a ProfileSetupPage that does not send a complete profile on.
RouteSetupKeepsComplete(p, cu, pr) ==
    IF p = "/login" THEN
        IF cu # NoEmail THEN (IF pr # None THEN "/dashboard" ELSE "/setup") ELSE p
    ELSE IF p = "/setup" THEN
        IF cu = NoEmail THEN "/login" ELSE p
    ELSE IF p = "/dashboard" THEN
        IF cu = NoEmail THEN "/login"
        ELSE IF pr = None THEN "/setup" ELSE p
    ELSE "/login"

\* Route with the second guard of ProfileSetupPage inverted: a user without
\* a profile is sent from /setup to /dashboard.
RouteSetupInverted(p, cu, pr) ==
    IF p = "/login" THEN
        IF cu # NoEmail THEN (IF pr # None THEN "/dashboard" ELSE "/setup") ELSE p
    ELSE IF p = "/setup" THEN
        IF cu = NoEmail THEN "/login"
        ELSE IF pr = None THEN "/dashboard" ELSE p
    ELSE IF p = "/dashboard" THEN
        IF cu = NoEmail THEN "/login"
        ELSE IF pr = None THEN "/setup" ELSE p
    ELSE "/login"

\* One render of the route matched by p: the path it redirects to, or p itself.
Route(p, cu, pr) ==
    IF p = "/login" THEN
        IF cu # NoEmail THEN (IF pr # None THEN "/dashboard" ELSE "/setup") ELSE p
    ELSE IF p = "/setup" THEN
        IF cu = NoEmail THEN "/login"
        ELSE IF pr # None THEN "/dashboard" ELSE p
    ELSE IF p = "/dashboard" THEN
        IF cu = NoEmail THEN "/login"
        ELSE IF pr = None THEN "/setup" ELSE p
    ELSE "/login"

RECURSIVE Follow(_, _, _, _)
Follow(p, cu, pr, fuel) ==
    IF fuel = 0 \/ Route(p, cu, pr) = p THEN p
    ELSE Follow(Route(p, cu, pr), cu, pr, fuel - 1)

\* The location once every <Navigate replace> has run.
Settle(p, cu, pr) == Follow(p, cu, pr, 4)

\* ------------------------------------------------------------------ Init
\* The first load with an empty localStorage and an empty users.json: the
\* restore effect finds no marker and clears loading at once.
Init ==
    /\ users = <<>>
    /\ now = 0
    /\ reqs = [i \in ReqIds |-> NoReq]
    /\ issued = 0
    /\ currentUser = NoEmail
    /\ profile = None
    /\ loading = FALSE
    /\ marker = NoEmail
    /\ path = "/login"
    /\ saving = FALSE
    /\ last = [op |-> "load", arg |-> NoEmail, status |-> 0]
    /\ ackedAccounts = {}
    /\ ackedProfile = [e \in Emails |-> None]

\* ------------------------------------------------------------ the server
\* new Date(): the clock has not gone back since it was last read.
Clock == {t \in {now, now + 1} : t <= MaxClock}

\* SignupRead without the duplicate check.
SignupReadNoDuplicateCheck(i) ==
    /\ reqs[i].op = "signup" /\ reqs[i].stage = "sent"
    /\ reqs' =
        IF reqs[i].email = "" \/ reqs[i].password = ""
        THEN Reply(i, 400, NoEmail, None, <<>>)
        ELSE [reqs EXCEPT ![i].stage = "hashing", ![i].snap = users]
    /\ UNCHANGED <<serverVars, issued>>
    /\ UNCHANGED clientVars

\* POST /api/signup up to the await: validate, read the file, check duplicate.
SignupRead(i) ==
    /\ reqs[i].op = "signup" /\ reqs[i].stage = "sent"
    /\ reqs' =
        IF reqs[i].email = "" \/ reqs[i].password = ""
        THEN Reply(i, 400, NoEmail, None, <<>>)
        ELSE IF Find(users, reqs[i].email) # None
        THEN Reply(i, 409, NoEmail, None, <<>>)
        ELSE [reqs EXCEPT ![i].stage = "hashing", ![i].snap = users]
    /\ UNCHANGED serverVars
    /\ UNCHANGED <<clientVars, issued>>

\* SignupWrite that reads the file again after the await and pushes onto
\* that list without checking it.
SignupWriteReread(i) ==
    /\ reqs[i].op = "signup" /\ reqs[i].stage = "hashing"
    /\ Len(users) < MaxUsers
    /\ \E t \in Clock :
        /\ now' = t
        /\ users' = Append(users, NewUser(reqs[i].email, reqs[i].password, t))
    /\ reqs' = Reply(i, 201, reqs[i].email, None, <<>>)
    /\ ackedAccounts' = ackedAccounts \cup {reqs[i].email}
    /\ UNCHANGED ackedProfile
    /\ UNCHANGED <<clientVars, issued>>

\* POST /api/signup after bcrypt.hash resolved: push onto the list read
\* before the await, write the file, answer 201.
SignupWrite(i) ==
    /\ reqs[i].op = "signup" /\ reqs[i].stage = "hashing"
    /\ Len(reqs[i].snap) < MaxUsers
    /\ \E t \in Clock :
        /\ now' = t
        /\ users' = Append(reqs[i].snap, NewUser(reqs[i].email, reqs[i].password, t))
    /\ reqs' = Reply(i, 201, reqs[i].email, None, <<>>)
    /\ ackedAccounts' = ackedAccounts \cup {reqs[i].email}
    /\ UNCHANGED ackedProfile
    /\ UNCHANGED <<clientVars, issued>>

\* POST /api/login up to the await: validate, read the file, find the user.
LoginRead(i) ==
    /\ reqs[i].op = "login" /\ reqs[i].stage = "sent"
    /\ reqs' =
        IF reqs[i].email = "" \/ reqs[i].password = ""
        THEN Reply(i, 400, NoEmail, None, <<>>)
        ELSE IF Find(users, reqs[i].email) = None
        THEN Reply(i, 404, NoEmail, None, <<>>)
        ELSE [reqs EXCEPT ![i].stage = "comparing",
                          ![i].snap = Find(users, reqs[i].email)]
    /\ UNCHANGED serverVars
    /\ UNCHANGED <<clientVars, issued>>

\* login that answers 200 without the profile.
LoginCompareNoProfile(i) ==
    /\ reqs[i].op = "login" /\ reqs[i].stage = "comparing"
    /\ LET user == reqs[i].snap[1]
           cmp == BcryptCompare(reqs[i].password, user.password)
       IN  \/ /\ cmp = "match"
              /\ reqs' = Reply(i, 200, user.email, None, <<>>)
           \/ /\ cmp = "mismatch"
              /\ reqs' = Reply(i, 401, NoEmail, None, <<>>)
           \/ /\ cmp = "throws"
              /\ reqs' = Reply(i, 500, NoEmail, None, <<>>)
           \/ /\ cmp = "throws"
              /\ reqs' = [reqs EXCEPT ![i] =
                            IF @.orphan THEN NoReq
                            ELSE [@ EXCEPT !.stage = "hung", !.snap = <<>>]]
    /\ UNCHANGED serverVars
    /\ UNCHANGED <<clientVars, issued>>

\* POST /api/login after bcrypt.compare settled.  A rejected compare leaves
\* the async handler with an unhandled rejection: the request is never
\* answered, or the connection ends without a JSON body (status 500).
LoginCompare(i) ==
    /\ reqs[i].op = "login" /\ reqs[i].stage = "comparing"
    /\ LET user == reqs[i].snap[1]
           cmp == BcryptCompare(reqs[i].password, user.password)
       IN  \/ /\ cmp = "match"
              /\ reqs' = Reply(i, 200, user.email, user.profile, <<>>)
           \/ /\ cmp = "mismatch"
              /\ reqs' = Reply(i, 401, NoEmail, None, <<>>)
           \/ /\ cmp = "throws"
              /\ reqs' = Reply(i, 500, NoEmail, None, <<>>)
           \/ /\ cmp = "throws"
              /\ reqs' = [reqs EXCEPT ![i] =
                            IF @.orphan THEN NoReq
                            ELSE [@ EXCEPT !.stage = "hung", !.snap = <<>>]]
    /\ UNCHANGED serverVars
    /\ UNCHANGED <<clientVars, issued>>

\* /api/profile that spreads the stored profile under the submitted one.
ProfileSaveMerges(i) ==
    /\ reqs[i].op = "profile" /\ reqs[i].stage = "sent"
    /\ LET e == reqs[i].email
           idx == FindIndex(users, e, 1)
           pd == IF reqs[i].pdata = None THEN [x \in {} |-> 0] ELSE reqs[i].pdata[1]
           old == IF idx = 0 \/ users[idx].profile = None THEN [x \in {} |-> 0]
                  ELSE users[idx].profile[1]
           merged == [f \in (DOMAIN old) \cup (DOMAIN pd) |->
                         IF f \in DOMAIN pd THEN pd[f] ELSE old[f]]
       IN  IF e = NoEmail THEN
               /\ reqs' = Reply(i, 400, NoEmail, None, <<>>)
               /\ UNCHANGED <<users, now, ackedProfile>>
           ELSE IF idx = 0 THEN
               /\ reqs' = Reply(i, 404, NoEmail, None, <<>>)
               /\ UNCHANGED <<users, now, ackedProfile>>
           ELSE \E t \in Clock :
               /\ now' = t
               /\ users' = [users EXCEPT ![idx].profile = Some(StampProfile(merged, t))]
               /\ reqs' = Reply(i, 200, NoEmail, Some(StampProfile(merged, t)), <<>>)
               /\ ackedProfile' = [ackedProfile EXCEPT ![e] = Some(StampProfile(merged, t))]
    /\ UNCHANGED ackedAccounts
    /\ UNCHANGED <<clientVars, issued>>

\* /api/profile that answers with the profile of the request body.
ProfileSaveAcksBody(i) ==
    /\ reqs[i].op = "profile" /\ reqs[i].stage = "sent"
    /\ LET e == reqs[i].email
           idx == FindIndex(users, e, 1)
           pd == IF reqs[i].pdata = None THEN [x \in {} |-> 0] ELSE reqs[i].pdata[1]
       IN  IF e = NoEmail THEN
               /\ reqs' = Reply(i, 400, NoEmail, None, <<>>)
               /\ UNCHANGED <<users, now, ackedProfile>>
           ELSE IF idx = 0 THEN
               /\ reqs' = Reply(i, 404, NoEmail, None, <<>>)
               /\ UNCHANGED <<users, now, ackedProfile>>
           ELSE \E t \in Clock :
               /\ now' = t
               /\ users' = [users EXCEPT ![idx].profile = Some(StampProfile(pd, t))]
               /\ reqs' = Reply(i, 200, NoEmail, Some(pd), <<>>)
               /\ ackedProfile' = [ackedProfile EXCEPT ![e] = Some(pd)]
    /\ UNCHANGED ackedAccounts
    /\ UNCHANGED <<clientVars, issued>>

\* /api/profile that creates the account it does not find.
ProfileSaveUpserts(i) ==
    /\ reqs[i].op = "profile" /\ reqs[i].stage = "sent"
    /\ LET e == reqs[i].email
           idx == FindIndex(users, e, 1)
           pd == IF reqs[i].pdata = None THEN [x \in {} |-> 0] ELSE reqs[i].pdata[1]
       IN  IF e = NoEmail THEN
               /\ reqs' = Reply(i, 400, NoEmail, None, <<>>)
               /\ UNCHANGED <<users, now, ackedProfile>>
           ELSE \E t \in Clock :
               /\ now' = t
               /\ users' = IF idx = 0
                           THEN Append(users, [NewGoogleUser(e, t) EXCEPT
                                    !.googleAuth = FALSE,
                                    !.profile = Some(StampProfile(pd, t))])
                           ELSE [users EXCEPT ![idx].profile = Some(StampProfile(pd, t))]
               /\ reqs' = Reply(i, 200, NoEmail, Some(StampProfile(pd, t)), <<>>)
               /\ ackedProfile' = [ackedProfile EXCEPT ![e] = Some(StampProfile(pd, t))]
    /\ UNCHANGED ackedAccounts
    /\ UNCHANGED <<clientVars, issued>>

\* POST /api/profile: one synchronous read-modify-write.
ProfileSave(i) ==
    /\ reqs[i].op = "profile" /\ reqs[i].stage = "sent"
    /\ LET e == reqs[i].email
           idx == FindIndex(users, e, 1)
           pd == IF reqs[i].pdata = None THEN [x \in {} |-> 0] ELSE reqs[i].pdata[1]
       IN  IF e = NoEmail THEN
               /\ reqs' = Reply(i, 400, NoEmail, None, <<>>)
               /\ UNCHANGED <<users, now, ackedProfile>>
           ELSE IF idx = 0 THEN
               /\ reqs' = Reply(i, 404, NoEmail, None, <<>>)
               /\ UNCHANGED <<users, now, ackedProfile>>
           ELSE \E t \in Clock :
               /\ now' = t
               /\ users' = [users EXCEPT ![idx].profile = Some(StampProfile(pd, t))]
               /\ reqs' = Reply(i, 200, NoEmail, Some(StampProfile(pd, t)), <<>>)
               /\ ackedProfile' = [ackedProfile EXCEPT ![e] = Some(StampProfile(pd, t))]
    /\ UNCHANGED ackedAccounts
    /\ UNCHANGED <<clientVars, issued>>

\* google-auth that pushes the new record but never writes the file.
GoogleAuthNoWrite(i) ==
    /\ reqs[i].op = "google" /\ reqs[i].stage = "sent"
    /\ LET e == VerifyIdToken(reqs[i].token)
           found == Find(users, e)
       IN  IF reqs[i].token = "" THEN
               reqs' = Reply(i, 400, NoEmail, None, <<>>)
           ELSE IF e = NoEmail THEN
               reqs' = Reply(i, 401, NoEmail, None, <<>>)
           ELSE IF found = None THEN
               reqs' = Reply(i, 200, e, None, <<>>)
           ELSE
               reqs' = Reply(i, 200, found[1].email, found[1].profile, <<>>)
    /\ UNCHANGED <<users, now, ackedAccounts, ackedProfile>>
    /\ UNCHANGED <<clientVars, issued>>

\* google-auth that writes a fresh record over the account it found.
GoogleAuthOverwrite(i) ==
    /\ reqs[i].op = "google" /\ reqs[i].stage = "sent"
    /\ LET e == VerifyIdToken(reqs[i].token)
           idx == FindIndex(users, e, 1)
       IN  IF reqs[i].token = "" THEN
               /\ reqs' = Reply(i, 400, NoEmail, None, <<>>)
               /\ UNCHANGED <<users, now, ackedAccounts>>
           ELSE IF e = NoEmail THEN
               /\ reqs' = Reply(i, 401, NoEmail, None, <<>>)
               /\ UNCHANGED <<users, now, ackedAccounts>>
           ELSE IF idx = 0 THEN
               /\ Len(users) < MaxUsers
               /\ \E t \in Clock :
                   /\ now' = t
                   /\ users' = Append(users, NewGoogleUser(e, t))
               /\ reqs' = Reply(i, 200, e, None, <<>>)
               /\ ackedAccounts' = ackedAccounts \cup {e}
           ELSE
               /\ \E t \in Clock :
                   /\ now' = t
                   /\ users' = [users EXCEPT ![idx] = NewGoogleUser(e, t)]
               /\ reqs' = Reply(i, 200, e, None, <<>>)
               /\ UNCHANGED ackedAccounts
    /\ UNCHANGED ackedProfile
    /\ UNCHANGED <<clientVars, issued>>

\* POST /api/google-auth: after verifyIdToken settled, find or create the
\* account in one synchronous step.
GoogleAuth(i) ==
    /\ reqs[i].op = "google" /\ reqs[i].stage = "sent"
    /\ LET e == VerifyIdToken(reqs[i].token)
           found == Find(users, e)
       IN  IF reqs[i].token = "" THEN
               /\ reqs' = Reply(i, 400, NoEmail, None, <<>>)
               /\ UNCHANGED <<users, now, ackedAccounts>>
           ELSE IF e = NoEmail THEN
               /\ reqs' = Reply(i, 401, NoEmail, None, <<>>)
               /\ UNCHANGED <<users, now, ackedAccounts>>
           ELSE IF found = None THEN
               /\ Len(users) < MaxUsers
               /\ \E t \in Clock :
                   /\ now' = t
                   /\ users' = Append(users, NewGoogleUser(e, t))
               /\ reqs' = Reply(i, 200, e, None, <<>>)
               /\ ackedAccounts' = ackedAccounts \cup {e}
           ELSE
               /\ reqs' = Reply(i, 200, found[1].email, found[1].profile, <<>>)
               /\ UNCHANGED <<users, now, ackedAccounts>>
    /\ UNCHANGED ackedProfile
    /\ UNCHANGED <<clientVars, issued>>

\* GET /api/users that writes the masked list back to users.json.
ListUsersWritesBack(i) ==
    /\ reqs[i].op = "users" /\ reqs[i].stage = "sent"
    /\ reqs' = Reply(i, 200, NoEmail, None, SafeUsers(users))
    /\ users' = SafeUsers(users)
    /\ UNCHANGED <<now, ackedAccounts, ackedProfile>>
    /\ UNCHANGED <<clientVars, issued>>

\* GET /api/users
ListUsers(i) ==
    /\ reqs[i].op = "users" /\ reqs[i].stage = "sent"
    /\ reqs' = Reply(i, 200, NoEmail, None, SafeUsers(users))
    /\ UNCHANGED serverVars
    /\ UNCHANGED <<clientVars, issued>>

\* ------------------------------------------------------------ the client
\* What a navigation leaves of ProfileSetupPage's saving flag: the instance
\* survives only when the location stays on /setup throughout.
SavingAfter(from, target, final, s) ==
    IF from = "/setup" /\ target = "/setup" /\ final = "/setup" THEN s ELSE FALSE

Result(op, a, st) == [op |-> op, arg |-> a, status |-> st]

\* The session state changed and then navigate(target) ran.
Navigate(target, cu, pr) ==
    /\ path' = Settle(target, cu, pr)
    /\ saving' = SavingAfter(path, target, Settle(target, cu, pr), saving)

\* AuthPage.handleLogin up to the await (the form passed validateLogin).
HandleLogin(e, p, up) ==
    /\ ~loading /\ path = "/login" /\ CanFetch(reqs)
    /\ issued' = issued + 1
    /\ reqs' = Fetch(reqs, NewReq("login", e, p, "", None), up)
    /\ UNCHANGED serverVars
    /\ UNCHANGED clientVars

\* AuthPage.handleSignup up to the await (the form passed validateSignup).
HandleSignup(e, p, up) ==
    /\ ~loading /\ path = "/login" /\ CanFetch(reqs)
    /\ issued' = issued + 1
    /\ reqs' = Fetch(reqs, NewReq("signup", e, p, "", None), up)
    /\ UNCHANGED serverVars
    /\ UNCHANGED clientVars

\* AuthPage.handleGoogleSuccess up to the await.
HandleGoogleSuccess(tok, up) ==
    /\ ~loading /\ path = "/login" /\ CanFetch(reqs)
    /\ issued' = issued + 1
    /\ reqs' = Fetch(reqs, NewReq("google", NoEmail, "", tok, None), up)
    /\ UNCHANGED serverVars
    /\ UNCHANGED clientVars

\* ProfileSetupPage.handleSubmit up to the await: the request carries the
\* currentUser of the render that created the handler.
HandleSubmit(pd, up) ==
    /\ ~loading /\ path = "/setup" /\ ~saving /\ CanFetch(reqs)
    /\ saving' = TRUE
    /\ issued' = issued + 1
    /\ reqs' = Fetch(reqs, NewReq("profile", currentUser, "", "", Some(pd)), up)
    /\ UNCHANGED serverVars
    /\ UNCHANGED <<currentUser, profile, loading, marker, path, last>>

\* LoginDone that drops the cached profile when the login failed.
LoginDoneFailureClearsProfile(i) ==
    /\ reqs[i].op = "login" /\ reqs[i].stage = "responded"
    /\ reqs' = [reqs EXCEPT ![i] = NoReq]
    /\ last' = Result("login", reqs[i].email, reqs[i].status)
    /\ IF Ok(reqs[i].status) THEN
           /\ marker' = reqs[i].email
           /\ currentUser' = reqs[i].email
           /\ profile' = reqs[i].rprofile
           /\ Navigate("/setup", reqs[i].email, reqs[i].rprofile)
       ELSE
           /\ profile' = None
           /\ UNCHANGED <<marker, currentUser, path, saving>>
    /\ UNCHANGED loading
    /\ UNCHANGED storeVars

\* LoginDone without the res.ok check.
LoginDoneIgnoresStatus(i) ==
    /\ reqs[i].op = "login" /\ reqs[i].stage = "responded"
    /\ reqs' = [reqs EXCEPT ![i] = NoReq]
    /\ last' = Result("login", reqs[i].email, reqs[i].status)
    /\ marker' = reqs[i].email
    /\ currentUser' = reqs[i].email
    /\ profile' = reqs[i].rprofile
    /\ Navigate("/setup", reqs[i].email, reqs[i].rprofile)
    /\ UNCHANGED loading
    /\ UNCHANGED storeVars

\* AuthContext.login after the await, then the rest of handleLogin.
LoginDone(i) ==
    /\ reqs[i].op = "login" /\ reqs[i].stage = "responded"
    /\ reqs' = [reqs EXCEPT ![i] = NoReq]
    /\ last' = Result("login", reqs[i].email, reqs[i].status)
    /\ IF Ok(reqs[i].status) THEN
           /\ marker' = reqs[i].email
           /\ currentUser' = reqs[i].email
           /\ profile' = reqs[i].rprofile
           /\ Navigate("/setup", reqs[i].email, reqs[i].rprofile)
       ELSE UNCHANGED <<marker, currentUser, profile, path, saving>>
    /\ UNCHANGED loading
    /\ UNCHANGED storeVars

\* SignupDone that keeps the localStorage key of a session that already exists.
SignupDoneFirstMarkerWins(i) ==
    /\ reqs[i].op = "signup" /\ reqs[i].stage = "responded"
    /\ reqs' = [reqs EXCEPT ![i] = NoReq]
    /\ last' = Result("signup", reqs[i].email, reqs[i].status)
    /\ IF Ok(reqs[i].status) THEN
           /\ marker' = IF marker # NoEmail THEN marker ELSE reqs[i].email
           /\ currentUser' = reqs[i].email
           /\ profile' = None
           /\ Navigate("/setup", reqs[i].email, None)
       ELSE UNCHANGED <<marker, currentUser, profile, path, saving>>
    /\ UNCHANGED loading
    /\ UNCHANGED storeVars

\* SignupDone without the auto-login.
SignupDoneNoSession(i) ==
    /\ reqs[i].op = "signup" /\ reqs[i].stage = "responded"
    /\ reqs' = [reqs EXCEPT ![i] = NoReq]
    /\ last' = Result("signup", reqs[i].email, reqs[i].status)
    /\ IF Ok(reqs[i].status) THEN
           /\ Navigate("/login", currentUser, profile)
           /\ UNCHANGED <<marker, currentUser, profile>>
       ELSE UNCHANGED <<marker, currentUser, profile, path, saving>>
    /\ UNCHANGED loading
    /\ UNCHANGED storeVars

\* AuthContext.signup after the await, then the rest of handleSignup.
SignupDone(i) ==
    /\ reqs[i].op = "signup" /\ reqs[i].stage = "responded"
    /\ reqs' = [reqs EXCEPT ![i] = NoReq]
    /\ last' = Result("signup", reqs[i].email, reqs[i].status)
    /\ IF Ok(reqs[i].status) THEN
           /\ marker' = reqs[i].email
           /\ currentUser' = reqs[i].email
           /\ profile' = None
           /\ Navigate("/setup", reqs[i].email, None)
       ELSE UNCHANGED <<marker, currentUser, profile, path, saving>>
    /\ UNCHANGED loading
    /\ UNCHANGED storeVars

\* AuthContext.googleLogin after the await, then the rest of
\* handleGoogleSuccess.
GoogleDone(i) ==
    /\ reqs[i].op = "google" /\ reqs[i].stage = "responded"
    /\ reqs' = [reqs EXCEPT ![i] = NoReq]
    /\ last' = Result("google", reqs[i].remail, reqs[i].status)
    /\ IF Ok(reqs[i].status) THEN
           /\ marker' = reqs[i].remail
           /\ currentUser' = reqs[i].remail
           /\ profile' = reqs[i].rprofile
           /\ Navigate("/setup", reqs[i].remail, reqs[i].rprofile)
       ELSE UNCHANGED <<marker, currentUser, profile, path, saving>>
    /\ UNCHANGED loading
    /\ UNCHANGED storeVars

\* SaveDone that caches the submitted profile even when the save failed.
SaveDoneOptimistic(i) ==
    /\ reqs[i].op = "profile" /\ reqs[i].stage = "responded"
    /\ reqs' = [reqs EXCEPT ![i] = NoReq]
    /\ last' = Result("profile", reqs[i].email, reqs[i].status)
    /\ profile' = IF Ok(reqs[i].status) THEN reqs[i].rprofile ELSE reqs[i].pdata
    /\ path' = Settle("/dashboard", currentUser, profile')
    /\ saving' = FALSE
    /\ UNCHANGED <<currentUser, marker, loading>>
    /\ UNCHANGED storeVars

\* AuthContext.saveProfile after the await, then the rest of handleSubmit:
\* setSaving(false) and navigate('/dashboard') whatever the outcome.
SaveDone(i) ==
    /\ reqs[i].op = "profile" /\ reqs[i].stage = "responded"
    /\ reqs' = [reqs EXCEPT ![i] = NoReq]
    /\ last' = Result("profile", reqs[i].email, reqs[i].status)
    /\ profile' = IF Ok(reqs[i].status) THEN reqs[i].rprofile ELSE profile
    /\ path' = Settle("/dashboard", currentUser, profile')
    /\ saving' = FALSE
    /\ UNCHANGED <<currentUser, marker, loading>>
    /\ UNCHANGED storeVars

\* logout without localStorage.removeItem.
LogoutKeepsMarker ==
    /\ ~loading /\ currentUser # NoEmail
    /\ currentUser' = NoEmail
    /\ profile' = None
    /\ Navigate("/login", NoEmail, None)
    /\ last' = Result("logout", NoEmail, 0)
    /\ UNCHANGED <<marker, reqs, loading>>
    /\ UNCHANGED storeVars

\* AuthContext.logout, then navigate('/login') (Navbar and DashboardPage).
Logout ==
    /\ ~loading /\ currentUser # NoEmail
    /\ marker' = NoEmail
    /\ currentUser' = NoEmail
    /\ profile' = None
    /\ Navigate("/login", NoEmail, None)
    /\ last' = Result("logout", NoEmail, 0)
    /\ UNCHANGED <<reqs, loading>>
    /\ UNCHANGED storeVars

\* The requests a page load leaves behind: answered ones are dropped with the
\* page, the others still run on the server with nobody to answer.
Abandon(rs) ==
    [i \in ReqIds |->
        IF rs[i].stage \in {"free", "responded", "hung"} THEN NoReq
        ELSE [rs[i] EXCEPT !.orphan = TRUE]]

\* A page load at path p and the restore effect of AuthProvider up to the
\* fetch of /api/users.
Reload(p, up) ==
    /\ last' = Result("load", marker, 0)
    /\ profile' = None
    /\ saving' = FALSE
    /\ currentUser' = marker
    /\ IF marker # NoEmail THEN
           /\ CanFetch(Abandon(reqs))
           /\ reqs' = Fetch(Abandon(reqs), NewReq("users", marker, "", "", None), up)
           /\ issued' = issued + 1
           /\ loading' = TRUE
           /\ path' = p
       ELSE
           /\ up
           /\ reqs' = Abandon(reqs)
           /\ UNCHANGED issued
           /\ loading' = FALSE
           /\ path' = Settle(p, NoEmail, None)
    /\ UNCHANGED marker
    /\ UNCHANGED serverVars

\* The restore effect without the .then that sets the profile.
RestoreDoneKeepsProfile(i) ==
    /\ reqs[i].op = "users" /\ reqs[i].stage = "responded"
    /\ reqs' = [reqs EXCEPT ![i] = NoReq]
    /\ last' = Result("restore", reqs[i].email, reqs[i].status)
    /\ profile' = profile
    /\ loading' = FALSE
    /\ path' = Settle(path, currentUser, profile')
    /\ saving' = FALSE
    /\ UNCHANGED <<currentUser, marker>>
    /\ UNCHANGED storeVars

\* The restore effect with setLoading(false) in .then instead of .finally.
RestoreDoneNoFinally(i) ==
    /\ reqs[i].op = "users" /\ reqs[i].stage = "responded"
    /\ reqs' = [reqs EXCEPT ![i] = NoReq]
    /\ last' = Result("restore", reqs[i].email, reqs[i].status)
    /\ LET user == Find(reqs[i].rusers, reqs[i].email)
       IN  profile' = IF Ok(reqs[i].status) /\ user # None THEN user[1].profile
                      ELSE IF Ok(reqs[i].status) THEN None ELSE profile
    /\ loading' = IF Ok(reqs[i].status) THEN FALSE ELSE loading
    /\ path' = IF loading' THEN path ELSE Settle(path, currentUser, profile')
    /\ saving' = FALSE
    /\ UNCHANGED <<currentUser, marker>>
    /\ UNCHANGED storeVars

\* The restore effect after the fetch settled: .then / .catch / .finally.
RestoreDone(i) ==
    /\ reqs[i].op = "users" /\ reqs[i].stage = "responded"
    /\ reqs' = [reqs EXCEPT ![i] = NoReq]
    /\ last' = Result("restore", reqs[i].email, reqs[i].status)
    /\ LET user == Find(reqs[i].rusers, reqs[i].email)
       IN  profile' = IF Ok(reqs[i].status) /\ user # None THEN user[1].profile
                      ELSE IF Ok(reqs[i].status) THEN None ELSE profile
    /\ loading' = FALSE
    /\ path' = Settle(path, currentUser, profile')
    /\ saving' = FALSE
    /\ UNCHANGED <<currentUser, marker>>
    /\ UNCHANGED storeVars

\* ------------------------------------------------------------------ Next
Server ==
    \/ \E i \in ReqIds : SignupRead(i)
    \/ \E i \in ReqIds : SignupWrite(i)
    \/ \E i \in ReqIds : LoginRead(i)
    \/ \E i \in ReqIds : LoginCompare(i)
    \/ \E i \in ReqIds : ProfileSave(i)
    \/ \E i \in ReqIds : GoogleAuth(i)
    \/ \E i \in ReqIds : ListUsers(i)

Client ==
    \/ \E e \in Emails, p \in Passwords, up \in BOOLEAN : HandleLogin(e, p, up)
    \/ \E e \in Emails, p \in Passwords, up \in BOOLEAN : HandleSignup(e, p, up)
    \/ \E tok \in GoogleTokens, up \in BOOLEAN : HandleGoogleSuccess(tok, up)
    \/ \E pd \in ProfileInputs, up \in BOOLEAN : HandleSubmit(pd, up)
    \/ \E i \in ReqIds : LoginDone(i)
    \/ \E i \in ReqIds : SignupDone(i)
    \/ \E i \in ReqIds : GoogleDone(i)
    \/ \E i \in ReqIds : SaveDone(i)
    \/ \E i \in ReqIds : RestoreDone(i)
    \/ Logout
    \/ \E p \in Paths, up \in BOOLEAN : Reload(p, up)

Next == Server \/ Client

Spec == Init /\ [][Next]_vars

TypeOK ==
    /\ currentUser \in Emails \cup {NoEmail}
    /\ marker \in Emails \cup {NoEmail}
    /\ path \in Paths
    /\ now \in 0..MaxClock
    /\ Len(users) <= MaxUsers

\* ----------------------------------------------------- the route guard
\* The guards taken alone: any session state, any requested path, one render.
StoredProfiles == {StampProfile(pd, t) : pd \in ProfileInputs, t \in 0..MaxClock}

GuardInit ==
    /\ users = <<>>
    /\ now = 0
    /\ reqs = [i \in ReqIds |-> NoReq]
    /\ issued = 0
    /\ currentUser \in Emails \cup {NoEmail}
    /\ profile \in {None} \cup {Some(sp) : sp \in StoredProfiles}
    /\ loading = FALSE
    /\ marker = currentUser
    /\ path \in Paths
    /\ saving = FALSE
    /\ last = Result("load", NoEmail, 0)
    /\ ackedAccounts = {}
    /\ ackedProfile = [e \in Emails |-> None]

\* The element of the route matching the location renders once; last keeps
\* the path that was requested.
Render ==
    /\ path' = Route(path, currentUser, profile)
    /\ last' = Result("route", path, 0)
    /\ UNCHANGED <<users, now, reqs, issued, currentUser, profile, loading,
                   marker, saving, ackedAccounts, ackedProfile>>

GuardSpec == GuardInit /\ [][Render]_vars

\* ---------------------------------------------------------- definitions
SessionState(cu, pr) ==
    IF cu = NoEmail THEN "Anonymous"
    ELSE IF pr = None THEN "NoProfile" ELSE "WithProfile"

\* Section 4.4: the one page each session state is allowed on.
AllowedPage(st) ==
    IF st = "Anonymous" THEN "/login"
    ELSE IF st = "NoProfile" THEN "/setup" ELSE "/dashboard"

HasAccount(us, e) == Find(us, e) # None
Account(us, e) == Find(us, e)[1]
StoreProfile(us, e) == IF HasAccount(us, e) THEN Account(us, e).profile ELSE None
Answered(r, st) == r.stage = "responded" /\ r.status = st

\* ------------------------------------------------------------------- C1
\* C1: for each of the 3 session states and each of the 3 pages, the page
\* that stays or the redirect that the page's guard issues is the page the
\* Route Guard table allows for that state.
C1_RouteGuardTable ==
    (last.op = "route" /\ last.arg \in Pages)
        => path = AllowedPage(SessionState(currentUser, profile))

C1_Witness ==
    /\ last = Result("route", "/login", 0)
    /\ currentUser # NoEmail /\ profile # None
    /\ path = "/dashboard"

\* ------------------------------------------------------------------- C2
\* C2: a signup for an email without account is not rejected, writes an
\* account with that password and no profile, is answered 201 and leaves the
\* session Authenticated(E, None); a login with the same password that finds
\* this account unchanged is answered 200 with no profile and leaves the
\* session Authenticated(E, None).
FreshAccount(us, e, p) ==
    /\ HasAccount(us, e)
    /\ Account(us, e).password = BcryptHash(p)
    /\ Account(us, e).profile = None

C2_SignupThenLogin ==
    [][\A i \in ReqIds :
        LET r == reqs[i] IN
        /\ (SignupRead(i) /\ ~HasAccount(users, r.email) /\ ~r.orphan)
              => reqs'[i].stage = "hashing"
        /\ SignupWrite(i)
              => /\ FreshAccount(users', r.email, r.password)
                 /\ r.orphan \/ Answered(reqs'[i], 201)
        /\ (SignupDone(i) /\ r.status = 201)
              => /\ currentUser' = r.email /\ profile' = None
                 /\ marker' = r.email
        /\ (LoginRead(i) /\ FreshAccount(users, r.email, r.password) /\ ~r.orphan)
              => /\ reqs'[i].stage = "comparing"
                 /\ reqs'[i].snap = Some(Account(users, r.email))
        /\ (LoginCompare(i) /\ r.snap = Some(NewUser(r.email, r.password, r.snap[1].createdAt))
                /\ ~r.orphan)
              => /\ Answered(reqs'[i], 200)
                 /\ reqs'[i].rprofile = None
        /\ (LoginDone(i) /\ r.status = 200 /\ r.rprofile = None)
              => /\ currentUser' = r.email /\ profile' = None
    ]_vars

C2_Witness ==
    /\ last = Result("login", "a@x.com", 200)
    /\ InFlight(reqs) = {} /\ issued = 2
    /\ FreshAccount(users, "a@x.com", "secret1")
    /\ currentUser = "a@x.com" /\ profile = None

\* ------------------------------------------------------------------- C3
\* C3: a signup for an email that has an account is answered 409 whatever
\* the password, and the account file is left as it was.
C3_SignupDuplicate ==
    [][\A i \in ReqIds :
        (SignupRead(i) /\ HasAccount(users, reqs[i].email))
            => /\ users' = users
               /\ reqs[i].orphan \/ Answered(reqs'[i], 409)
    ]_vars

C3_Witness ==
    /\ last = Result("signup", "a@x.com", 409)
    /\ HasAccount(users, "a@x.com")
    /\ Account(users, "a@x.com").password # BcryptHash("secret1")

\* ------------------------------------------------------------------- C4
\* C4: a login with a password other than the account's is answered 401, a
\* login for an email without account is answered 404, and the client
\* leaves session and marker as they were on either answer.
C4_LoginFailures ==
    [][\A i \in ReqIds :
        LET r == reqs[i] IN
        /\ (LoginRead(i) /\ ~HasAccount(users, r.email) /\ ~r.orphan)
              => Answered(reqs'[i], 404)
        /\ (LoginCompare(i) /\ r.snap[1].password # None
                /\ r.snap[1].password # BcryptHash(r.password) /\ ~r.orphan)
              => Answered(reqs'[i], 401)
        /\ (LoginDone(i) /\ r.status \in {401, 404})
              => UNCHANGED <<currentUser, profile, marker>>
    ]_vars

C4_Witness ==
    /\ last = Result("login", "a@x.com", 401)
    /\ HasAccount(users, "a@x.com")
    /\ currentUser = NoEmail /\ marker = NoEmail

\* ------------------------------------------------------------------- C5
\* C5: a password login for an account that externalLogin created (null
\* credential) is answered 401: it is not left unanswered and does not fail
\* in another way.
C5_GoogleAccountLogin ==
    [][\A i \in ReqIds :
        (LoginCompare(i) /\ reqs[i].snap[1].password = None /\ ~reqs[i].orphan)
            => Answered(reqs'[i], 401)
    ]_vars

\* ------------------------------------------------------------------- C6
\* C6: when the restore lookup succeeds and finds no account for the marker's
\* email, the session ends Anonymous.
C6_RestoreStaleMarker ==
    [][\A i \in ReqIds :
        (RestoreDone(i) /\ Ok(reqs[i].status)
            /\ ~HasAccount(reqs[i].rusers, reqs[i].email))
            => currentUser' = NoEmail
    ]_vars

\* ------------------------------------------------------------------- C7
\* C7: whenever no request is outstanding and the session is authenticated,
\* the cached profile is the store's profile of the current email; stated for
\* the case the claim names, the states a processed saveProfile response
\* leaves while every acknowledged account and profile is still in the store.
C7_SessionProfileFresh ==
    (/\ InFlight(reqs) = {} /\ ~loading /\ currentUser # NoEmail
     /\ last.op = "profile" /\ Ok(last.status)
     /\ \A e \in ackedAccounts : HasAccount(users, e)
     /\ \A e \in Emails : ackedProfile[e] # None => StoreProfile(users, e) = ackedProfile[e])
        => profile = StoreProfile(users, currentUser)

\* ------------------------------------------------------------------- C8
\* C8: every account whose creation was acknowledged is in the store.
C8_AckedAccountsKept ==
    \A e \in ackedAccounts : HasAccount(users, e)

\* ------------------------------------------------------------------- C9
\* C9: the profile of the last acknowledged save for an email is the profile
\* of that email's account for as long as the account is in the store.
C9_AckedProfileKept ==
    \A e \in Emails :
        (ackedProfile[e] # None /\ HasAccount(users, e))
            => Account(users, e).profile = ackedProfile[e]

\* ------------------------------------------------------------------ C10
\* C10: the account file never holds two records with the same email.
C10_OneAccountPerEmail ==
    \A i, j \in 1..Len(users) : users[i].email = users[j].email => i = j

C10_Witness ==
    /\ \E i, j \in ReqIds :
        /\ i # j
        /\ reqs[i].op = "signup" /\ reqs[j].op = "signup"
        /\ reqs[i].email = reqs[j].email
        /\ Answered(reqs[i], 201) /\ Answered(reqs[j], 201)
    /\ Len(users) = 1

\* ------------------------------------------------------------------ C11
\* C11: of two signup requests for the same email that are in flight
\* together, at most one is answered 201.
C11_ConcurrentSignupOneWins ==
    \A i, j \in ReqIds :
        (/\ i # j
         /\ reqs[i].op = "signup" /\ reqs[j].op = "signup"
         /\ reqs[i].email = reqs[j].email
         /\ Answered(reqs[i], 201))
            => ~Answered(reqs[j], 201)

\* ------------------------------------------- the Auth Service called directly
\* logout and saveProfile as any consumer of the context may call them, from
\* every session state a quiet client can be in: no page decides when.
PartialProfile == [fullName |-> "E F"]
ForgedProfile ==
    [fullName |-> "G H", phone |-> "9876543212", city |-> "Goa",
     state |-> "Goa", completedAt |-> 99]
ApiProfileInputs == ProfileInputs \cup {PartialProfile, ForgedProfile}

ApiStores ==
    { <<>>,
      <<NewUser("a@x.com", "secret1", 0)>>,
      <<[NewUser("a@x.com", "secret1", 0) EXCEPT
            !.profile = Some(StampProfile([fullName |-> "A B",
                phone |-> "9876543210", city |-> "Pune",
                state |-> "Maharashtra"], 0))]>> }

ApiInit ==
    /\ users \in ApiStores
    /\ now = 0
    /\ reqs = [i \in ReqIds |-> NoReq]
    /\ issued = 0
    /\ currentUser \in {NoEmail} \cup {users[k].email : k \in 1..Len(users)}
    /\ profile = StoreProfile(users, currentUser)
    /\ loading = FALSE
    /\ marker = currentUser
    /\ path = Settle("/login", currentUser, profile)
    /\ saving = FALSE
    /\ last = Result("load", NoEmail, 0)
    /\ ackedAccounts = {users[k].email : k \in 1..Len(users)}
    /\ ackedProfile = [e \in Emails |-> StoreProfile(users, e)]

\* AuthContext.saveProfile up to the fetch: the body carries the current
\* email, whatever it is.
SaveProfileCall(pd, up) ==
    /\ CanFetch(reqs)
    /\ issued' = issued + 1
    /\ reqs' = Fetch(reqs, NewReq("profile", currentUser, "", "", Some(pd)), up)
    /\ UNCHANGED serverVars
    /\ UNCHANGED clientVars

\* logout that leaves the localStorage key in place.
LogoutCallKeepsMarker ==
    /\ currentUser' = NoEmail
    /\ profile' = None
    /\ Navigate(path, NoEmail, None)
    /\ last' = Result("logout", currentUser, 0)
    /\ UNCHANGED <<marker, reqs, loading>>
    /\ UNCHANGED storeVars

\* AuthContext.logout; the page on screen renders again.  last keeps the
\* email that was current when it was called.
LogoutCall ==
    /\ marker' = NoEmail
    /\ currentUser' = NoEmail
    /\ profile' = None
    /\ Navigate(path, NoEmail, None)
    /\ last' = Result("logout", currentUser, 0)
    /\ UNCHANGED <<reqs, loading>>
    /\ UNCHANGED storeVars

ApiNext ==
    \/ \E pd \in ApiProfileInputs, up \in BOOLEAN : SaveProfileCall(pd, up)
    \/ LogoutCall
    \/ \E i \in ReqIds : ProfileSave(i)
    \/ \E i \in ReqIds : SaveDone(i)

ApiSpec == ApiInit /\ [][ApiNext]_vars

\* What the Auth Service function hands back to its caller: login, signup and
\* googleLogin return { ok, error }; saveProfile and logout return nothing.
Returned(res) ==
    IF res.op \in {"login", "signup", "google"}
    THEN (IF Ok(res.status) THEN "ok" ELSE "error")
    ELSE "undefined"

\* ------------------------------------------------------------------ C14
\* C14: every call of logout ends with no current email, no cached profile
\* and no marker; a call made when the session is already Anonymous (the
\* second of two calls in a row included) changes nothing of the session.
C14_LogoutIdempotent ==
    [][LogoutCall =>
        /\ currentUser' = NoEmail /\ profile' = None /\ marker' = NoEmail
        /\ (currentUser = NoEmail /\ profile = None /\ marker = NoEmail
                => UNCHANGED <<currentUser, profile, marker, path, users>>)]_vars

C14_Witness ==
    /\ last = Result("logout", NoEmail, 0)
    /\ currentUser = NoEmail /\ profile = None /\ marker = NoEmail
    /\ path = "/login"

\* ------------------------------------------------------------------ C15
\* C15: a saveProfile call made while the session is Anonymous, which the
\* server refuses with 400, hands a failure back to its caller.
C15_SaveProfileAnonymousFails ==
    (last.op = "profile" /\ last.arg = NoEmail /\ last.status = 400)
        => Returned(last) = "error"

\* ------------------------------------------------------------------ C12
\* C12: google-auth with a token that verifies to an email G without an
\* account appends one record for G with password null and profile null,
\* leaves every other record as it was and answers 200 with G and a null
\* profile; the client then holds G with a null profile and the marker G.
C12_GoogleCreatesAccount ==
    [][\A i \in ReqIds :
        LET r == reqs[i]
            g == VerifyIdToken(r.token)
        IN  /\ (GoogleAuth(i) /\ g # NoEmail /\ ~HasAccount(users, g)) =>
                  /\ Len(users') = Len(users) + 1
                  /\ \A k \in 1..Len(users) : users'[k] = users[k]
                  /\ users'[Len(users')].email = g
                  /\ users'[Len(users')].password = None
                  /\ users'[Len(users')].profile = None
                  /\ \/ r.orphan
                     \/ /\ Answered(reqs'[i], 200)
                        /\ reqs'[i].remail = g
                        /\ reqs'[i].rprofile = None
            /\ (GoogleDone(i) /\ r.status = 200 /\ r.rprofile = None) =>
                  /\ currentUser' = r.remail
                  /\ profile' = None
                  /\ marker' = r.remail]_vars

C12_Witness ==
    /\ last = Result("google", "b@x.com", 200)
    /\ InFlight(reqs) = {} /\ issued = 2
    /\ Len(users) = 2
    /\ users[1].email = "a@x.com" /\ users[1].password = BcryptHash("secret1")
    /\ users[2].email = "b@x.com" /\ users[2].password = None
    /\ users[2].profile = None
    /\ currentUser = "b@x.com" /\ profile = None /\ marker = "b@x.com"

\* ------------------------------------------------------------------ C13
\* C13: google-auth with a token that verifies to an email that has an
\* account leaves the account file as it is and answers 200 with that email
\* and the account's profile (null if it has none); the client then holds
\* that email and that profile.
C13_GoogleExistingAccount ==
    [][\A i \in ReqIds :
        LET r == reqs[i]
            g == VerifyIdToken(r.token)
        IN  /\ (GoogleAuth(i) /\ g # NoEmail /\ HasAccount(users, g)) =>
                  /\ users' = users
                  /\ \/ r.orphan
                     \/ /\ Answered(reqs'[i], 200)
                        /\ reqs'[i].remail = g
                        /\ reqs'[i].rprofile = Account(users, g).profile
            /\ (GoogleDone(i) /\ Ok(r.status)) =>
                  /\ currentUser' = r.remail
                  /\ profile' = r.rprofile
                  /\ marker' = r.remail]_vars

C13_Witness ==
    /\ last = Result("google", "b@x.com", 200)
    /\ InFlight(reqs) = {} /\ issued = 3
    /\ Len(users) = 1
    /\ currentUser = "b@x.com" /\ marker = "b@x.com"
    /\ profile # None /\ profile = StoreProfile(users, "b@x.com")

\* ------------------------------------------------------------------ C16
\* C16: a save for an email E that has an account stores the submitted
\* fields with completedAt set to the server clock at the save, never to a
\* completedAt the client sent, and answers 200 with the stored profile;
\* the client whose current email is E then caches the profile of the answer.
C16_SaveProfileStamped ==
    [][\A i \in ReqIds :
        LET r == reqs[i]
            e == r.email
            pd == r.pdata[1]
        IN  /\ (ProfileSave(i) /\ HasAccount(users, e)) =>
                  LET p == Account(users', e).profile[1]
                  IN  /\ Account(users', e).profile # None
                      /\ \A f \in (DOMAIN pd) \ {"completedAt"} : p[f] = pd[f]
                      /\ p.completedAt = now'
                      /\ ("completedAt" \in DOMAIN pd /\ pd.completedAt # now')
                            => p.completedAt # pd.completedAt
                      /\ \/ r.orphan
                         \/ /\ Answered(reqs'[i], 200)
                            /\ reqs'[i].rprofile = Some(p)
            /\ (SaveDone(i) /\ Ok(r.status) /\ currentUser = e) =>
                  /\ profile' = r.rprofile
                  /\ currentUser' = e]_vars

C16_Witness ==
    /\ last = Result("profile", "a@x.com", 200)
    /\ InFlight(reqs) = {}
    /\ currentUser = "a@x.com"
    /\ profile # None /\ profile = StoreProfile(users, "a@x.com")
    /\ profile[1].fullName = "G H" /\ profile[1].completedAt = 1

\* ------------------------------------------------------------------ C17
\* C17: after a save for an email that has an account, the account's profile
\* has the submitted fields and completedAt and no other field, whatever the
\* profile before held; when the submitted fields are the ones already
\* stored, the fields stay and completedAt is the server clock at this save.
C17_SaveProfileReplaces ==
    [][\A i \in ReqIds :
        LET r == reqs[i]
            e == r.email
            pd == r.pdata[1]
        IN  (ProfileSave(i) /\ HasAccount(users, e)) =>
                LET before == Account(users, e).profile
                    p == Account(users', e).profile[1]
                IN  /\ DOMAIN p = (DOMAIN pd) \cup {"completedAt"}
                    /\ before # None =>
                          \A f \in DOMAIN before[1] :
                              f \notin (DOMAIN pd) \cup {"completedAt"}
                                  => f \notin DOMAIN p
                    /\ (before # None /\ before[1] = StampProfile(pd, before[1].completedAt))
                          => p = StampProfile(pd, now')]_vars

C17_Witness ==
    \E i, j \in ReqIds :
        /\ i # j
        /\ reqs[i].op = "profile" /\ reqs[j].op = "profile"
        /\ reqs[i].email = "a@x.com" /\ reqs[j].email = "a@x.com"
        /\ Answered(reqs[i], 200) /\ Answered(reqs[j], 200)
        /\ "phone" \in DOMAIN reqs[i].rprofile[1]
        /\ reqs[j].pdata = Some(PartialProfile)
        /\ StoreProfile(users, "a@x.com") = reqs[j].rprofile
        /\ DOMAIN StoreProfile(users, "a@x.com")[1] = {"fullName", "completedAt"}

\* --------------------------------------------------- one request at a time
\* The same client and server with no other writer: a request is issued only
\* once the one before is through, on the server and in the client.
Quiet == InFlight(reqs) = {}

SeqNext ==
    \/ Server
    \/ \E e \in Emails, p \in Passwords, up \in BOOLEAN : Quiet /\ HandleLogin(e, p, up)
    \/ \E e \in Emails, p \in Passwords, up \in BOOLEAN : Quiet /\ HandleSignup(e, p, up)
    \/ \E tok \in GoogleTokens, up \in BOOLEAN : Quiet /\ HandleGoogleSuccess(tok, up)
    \/ \E pd \in ProfileInputs, up \in BOOLEAN : Quiet /\ HandleSubmit(pd, up)
    \/ \E i \in ReqIds : LoginDone(i)
    \/ \E i \in ReqIds : SignupDone(i)
    \/ \E i \in ReqIds : GoogleDone(i)
    \/ \E i \in ReqIds : SaveDone(i)
    \/ \E i \in ReqIds : RestoreDone(i)
    \/ Logout
    \/ \E p \in Paths, up \in BOOLEAN : Quiet /\ Reload(p, up)

SeqSpec == Init /\ [][SeqNext]_vars

\* ------------------------------------------------------------------ C18
\* C18: with one request at a time, once a login of E has succeeded the
\* session holds E and the profile of E's account, which is the profile the
\* last acknowledged save for E stored: the fields submitted then and the
\* completedAt stamped then.
C18_LoginReturnsSavedProfile ==
    (Quiet /\ last.op = "login" /\ Ok(last.status)) =>
        /\ currentUser = last.arg /\ marker = last.arg
        /\ profile = StoreProfile(users, last.arg)
        /\ ackedProfile[last.arg] # None => profile = ackedProfile[last.arg]

C18_Witness ==
    /\ last = Result("login", "a@x.com", 200)
    /\ Quiet /\ issued = 3
    /\ Account(users, "a@x.com").password = BcryptHash("secret1")
    /\ currentUser = "a@x.com"
    /\ profile # None /\ profile = ackedProfile["a@x.com"]
    /\ profile[1].fullName = "A B" /\ profile[1].completedAt = 1

\* ------------------------------------------------------------------ C19
\* C19: GET /api/users answers with the accounts as the file holds them, each
\* with its profile; a restore whose fetch succeeded, for a marker naming an
\* email that has an account in the answer, ends with that email current,
\* that account's profile (null if it has none) cached and loading over; a
\* page load with no marker ends with no current email, no profile and
\* loading over, and issues no request.
C19_RestoreSession ==
    [][/\ \A i \in ReqIds :
            LET e == reqs[i].email
            IN  /\ (ListUsers(i) /\ ~reqs[i].orphan) =>
                      /\ Answered(reqs'[i], 200)
                      /\ reqs'[i].rusers = SafeUsers(users)
                      /\ HasAccount(reqs'[i].rusers, e) = HasAccount(users, e)
                      /\ StoreProfile(reqs'[i].rusers, e) = StoreProfile(users, e)
                /\ (RestoreDone(i) /\ Ok(reqs[i].status)
                        /\ HasAccount(reqs[i].rusers, e)) =>
                      /\ currentUser' = e /\ marker' = e
                      /\ profile' = StoreProfile(reqs[i].rusers, e)
                      /\ ~loading'
       /\ \A p \in Paths, up \in BOOLEAN :
            (Reload(p, up) /\ marker = NoEmail) =>
                /\ currentUser' = NoEmail /\ profile' = None
                /\ ~loading'
                /\ issued' = issued
                /\ InFlight(reqs') \subseteq InFlight(reqs)]_vars

C19_Witness ==
    /\ last = Result("restore", "a@x.com", 200)
    /\ InFlight(reqs) = {} /\ ~loading
    /\ currentUser = "a@x.com" /\ marker = "a@x.com"
    /\ profile # None /\ profile = StoreProfile(users, "a@x.com")
    /\ path = "/dashboard"

\* ------------------------------------------------------------------ C20
\* C20: in every reachable state, no current email means no cached profile.
C20_AnonymousHasNoProfile ==
    currentUser = NoEmail => profile = None

\* ------------------------------------------------------------------ C21
\* C21: the marker is the current email in the first state and after every
\* step (none exactly when there is no current email); a login, signup or
\* google login whose answer is not ok changes neither.
C21_MarkerIsCurrentEmail ==
    /\ marker = currentUser
    /\ [][/\ marker' = currentUser'
          /\ \A i \in ReqIds :
                ((LoginDone(i) \/ SignupDone(i) \/ GoogleDone(i)) /\ ~Ok(reqs[i].status))
                    => UNCHANGED <<marker, currentUser>>]_vars

C21_Witness ==
    /\ last = Result("login", "a@x.com", 401)
    /\ marker = "b@x.com" /\ currentUser = "b@x.com"
    /\ ackedAccounts = {"a@x.com", "b@x.com"}

\* ------------------------------------------------ the endpoints called directly
\* The Express routes as any HTTP client may call them: bodies with missing
\* fields included, whatever the pages would have validated, on a store that
\* already holds accounts or not.  The browser client stays on the login page.
AnyEmails == Emails \cup {""}
AnyPasswords == Passwords \cup {""}
AnyTokens == GoogleTokens \cup {""}
BodyProfiles ==
    { [fullName |-> "A B", phone |-> "9876543210", city |-> "Pune", state |-> "Maharashtra"],
      [fullName |-> "E F"] }

ServerStores ==
    { <<>>,
      <<NewUser("a@x.com", "secret1", 0)>>,
      <<NewGoogleUser("b@x.com", 0), NewUser("a@x.com", "secret1", 0)>> }

ServerInit ==
    /\ users \in ServerStores
    /\ now = 0
    /\ reqs = [i \in ReqIds |-> NoReq]
    /\ issued = 0
    /\ currentUser = NoEmail
    /\ profile = None
    /\ loading = FALSE
    /\ marker = NoEmail
    /\ path = "/login"
    /\ saving = FALSE
    /\ last = Result("load", NoEmail, 0)
    /\ ackedAccounts = {users[k].email : k \in 1..Len(users)}
    /\ ackedProfile = [e \in Emails |-> StoreProfile(users, e)]

\* An HTTP request reaches the server.
Post(r) ==
    /\ CanFetch(reqs)
    /\ issued' = issued + 1
    /\ reqs' = Fetch(reqs, r, TRUE)
    /\ UNCHANGED serverVars
    /\ UNCHANGED clientVars

PostSignup(e, p) == Post(NewReq("signup", e, p, "", None))
PostLogin(e, p) == Post(NewReq("login", e, p, "", None))
PostProfile(e, pd) == Post(NewReq("profile", e, "", "", Some(pd)))
PostGoogleAuth(tok) == Post(NewReq("google", NoEmail, "", tok, None))
GetUsers == Post(NewReq("users", NoEmail, "", "", None))

\* The caller takes the response.
Receive(i) ==
    /\ reqs[i].stage = "responded"
    /\ reqs' = [reqs EXCEPT ![i] = NoReq]
    /\ UNCHANGED clientVars
    /\ UNCHANGED storeVars

ServerNext ==
    \/ Server
    \/ \E e \in AnyEmails, p \in AnyPasswords : PostSignup(e, p)
    \/ \E e \in AnyEmails, p \in AnyPasswords : PostLogin(e, p)
    \/ \E e \in AnyEmails, pd \in BodyProfiles : PostProfile(e, pd)
    \/ \E tok \in AnyTokens : PostGoogleAuth(tok)
    \/ GetUsers
    \/ \E i \in ReqIds : Receive(i)

ServerSpec == ServerInit /\ [][ServerNext]_vars

\* ------------------------------------------------------------------ C22
\* C22: no account record in any response has a password field: the answer
\* of GET /api/users lists the accounts without it, and the answers of the
\* other endpoints carry no account record at all.
C22_NoCredentialInResponses ==
    \A i \in ReqIds :
        LET r == reqs[i]
        IN  /\ \A k \in 1..Len(r.rusers) : "password" \notin DOMAIN r.rusers[k]
            /\ r.op # "users" => r.rusers = <<>>

C22_Witness ==
    \E i \in ReqIds :
        /\ reqs[i].op = "users" /\ Answered(reqs[i], 200)
        /\ Len(reqs[i].rusers) = 2 /\ Len(users) = 2
        /\ \E k \in 1..2 : users[k].password = BcryptHash("secret1")
        /\ \A k \in 1..2 :
            /\ reqs[i].rusers[k].email = users[k].email
            /\ DOMAIN reqs[i].rusers[k] = (DOMAIN users[k]) \ {"password"}

\* ------------------------------------------------------------------ C23
\* C23: a signup, login, google login or saveProfile whose fetch failed for
\* want of a connection (status 0) hands an error back to its caller.
C23_UnavailableReported ==
    (last.op \in {"signup", "login", "google", "profile"} /\ last.status = 0)
        => Returned(last) = "error"

\* ------------------------------------------------------ the signup form
\* The auth page's signup form with what a user may type.  An email field is
\* the sequence of its characters, so that trim() and the pattern are
\* computed on it; a password is a string, of which only the length matters.
Sp == " "

RECURSIVE TrimStart(_)
TrimStart(s) == IF s # <<>> /\ Head(s) = Sp THEN TrimStart(Tail(s)) ELSE s

RECURSIVE TrimEnd(_)
TrimEnd(s) ==
    IF s # <<>> /\ s[Len(s)] = Sp THEN TrimEnd(SubSeq(s, 1, Len(s) - 1)) ELSE s

\* String.prototype.trim
Trim(s) == TrimEnd(TrimStart(s))

\* The characters as the string the request carries.
RECURSIVE Str(_)
Str(s) == IF s = <<>> THEN "" ELSE Head(s) \o Str(Tail(s))

\* /^[^\s@]+@[^\s@]+\.[^\s@]+$/.test(s): one "@", no white space, something
\* before the "@", and after it a "." with something on both sides.
EmailPattern(s) ==
    LET ats == {k \in 1..Len(s) : s[k] = "@"}
    IN  /\ Cardinality(ats) = 1
        /\ \A k \in 1..Len(s) : s[k] # Sp
        /\ \E i \in ats : 1 < i /\ \E j \in (i + 2)..(Len(s) - 1) : s[j] = "."

FormEmails ==
    { <<"a", "@", "x", ".", "c", "o", "m">>,
      <<"a", "@", "x", ".", "c", "o", "m", " ">>,
      <<>>,
      <<"a", "x", ".", "c", "o", "m">>,
      <<"a", "@", "@", "x", ".", "c", "o", "m">> }
FormPasswords == {"secret1", "short", ""}

SignupForms ==
    [email : FormEmails, password : FormPasswords, confirmPassword : {"secret1", ""}]

\* validateSignup without the checks of the email field.
ValidateSignupNoEmailCheck(f) ==
    (IF f.password = "" \/ Len(f.password) < 6 THEN {"password"} ELSE {})
    \cup (IF f.confirmPassword = "" \/ f.password # f.confirmPassword
          THEN {"confirmPassword"} ELSE {})

\* validateSignup: the fields that get an error message.
ValidateSignup(f) ==
    (IF Trim(f.email) = <<>> \/ ~EmailPattern(f.email) THEN {"email"} ELSE {})
    \cup (IF f.password = "" \/ Len(f.password) < 6 THEN {"password"} ELSE {})
    \cup (IF f.confirmPassword = "" \/ f.password # f.confirmPassword
          THEN {"confirmPassword"} ELSE {})

\* handleSignup from the submit event: with errors it returns before signup
\* is called; last keeps the email typed and the number of fields in error.
HandleSignupForm(f, up) ==
    IF ValidateSignup(f) = {}
    THEN HandleSignup(Str(Trim(f.email)), f.password, up)
    ELSE /\ ~loading /\ path = "/login" /\ up
         /\ last' = Result("validate", Str(f.email), Cardinality(ValidateSignup(f)))
         /\ UNCHANGED <<currentUser, profile, loading, marker, path, saving>>
         /\ UNCHANGED <<reqs, issued>>
         /\ UNCHANGED serverVars

FormNext ==
    \/ \E f \in SignupForms, up \in BOOLEAN : HandleSignupForm(f, up)
    \/ \E i \in ReqIds : SignupRead(i)
    \/ \E i \in ReqIds : SignupWrite(i)
    \/ \E i \in ReqIds : SignupDone(i)
    \/ Logout

FormSpec == Init /\ [][FormNext]_vars

\* The forms whose email does not match the pattern or whose password is empty.
MalformedForms ==
    [email : {s \in FormEmails : ~EmailPattern(s)}, password : FormPasswords,
     confirmPassword : {"secret1", ""}]
    \cup [email : FormEmails, password : {""}, confirmPassword : {"secret1", ""}]

\* ------------------------------------------------------------------ C24
\* C24: a signup form submitted with an email that does not match the
\* pattern, or with an empty password, ends in field errors: no request is
\* issued, the account file is as before and so are session, marker and page.
C24_SignupValidation ==
    [][\A f \in MalformedForms, up \in BOOLEAN :
        HandleSignupForm(f, up) =>
            /\ last'.op = "validate"
            /\ UNCHANGED <<reqs, issued, users, ackedAccounts>>
            /\ UNCHANGED <<currentUser, profile, marker, path>>]_vars

C24_Witness ==
    /\ last.op = "validate" /\ last.arg = "ax.com"
    /\ InFlight(reqs) = {} /\ issued = 1
    /\ Len(users) = 1 /\ users[1].email = "a@x.com"
    /\ currentUser = NoEmail /\ marker = NoEmail /\ path = "/login"

\* ------------------------------------------------------------------ C25
\* C25: no step changes the password or the createdAt of the record stored
\* for an email.
C25_AccountFieldsImmutable ==
    [][\A e \in Emails :
        (HasAccount(users, e) /\ HasAccount(users', e)) =>
            /\ Account(users', e).password = Account(users, e).password
            /\ Account(users', e).createdAt = Account(users, e).createdAt]_vars

\* ------------------------------------------------------------------ C26
\* C26: when a save for an email is handled while another save for the same
\* email is in flight, the account's profile becomes the fields of the save
\* handled with its completedAt and nothing else, that save is answered 200
\* with the profile it wrote, and the other save's answer stays as it is.
C26_ConcurrentSavesLastWins ==
    [][\A i \in ReqIds :
        LET r == reqs[i]
            e == r.email
            pd == r.pdata[1]
        IN  (/\ ProfileSave(i) /\ HasAccount(users, e)
             /\ \E j \in ReqIds \ {i} : reqs[j].op = "profile" /\ reqs[j].email = e) =>
                /\ StoreProfile(users', e) = Some(StampProfile(pd, now'))
                /\ Answered(reqs'[i], 200)
                /\ reqs'[i].rprofile = StoreProfile(users', e)
                /\ \A j \in ReqIds \ {i} : reqs'[j] = reqs[j]]_vars

C26_Witness ==
    \E i, j \in ReqIds :
        /\ i # j
        /\ reqs[i].op = "profile" /\ reqs[j].op = "profile"
        /\ reqs[i].email = "a@x.com" /\ reqs[j].email = "a@x.com"
        /\ Answered(reqs[i], 200) /\ Answered(reqs[j], 200)
        /\ reqs[j].pdata = Some([fullName |-> "E F"])
        /\ DOMAIN reqs[j].rprofile[1] = {"fullName", "completedAt"}
        /\ "phone" \in DOMAIN reqs[i].pdata[1]
        /\ StoreProfile(users, "a@x.com") = reqs[i].rprofile
        /\ StoreProfile(users, "a@x.com")[1].fullName = "A B"
        /\ StoreProfile(users, "a@x.com")[1].completedAt = 1
        /\ reqs[j].rprofile[1].completedAt = 0

\* ------------------------------------------------------------------ C27
\* C27: a save whose body has no email is answered 400 and a save for an
\* email that has no account is answered 404; in both cases the account file
\* is left as it is.
C27_SaveProfileRejected ==
    [][\A i \in ReqIds :
        LET e == reqs[i].email
        IN  /\ (ProfileSave(i) /\ e = NoEmail) =>
                  Answered(reqs'[i], 400) /\ users' = users
            /\ (ProfileSave(i) /\ e # NoEmail /\ ~HasAccount(users, e)) =>
                  Answered(reqs'[i], 404) /\ users' = users]_vars

C27_Witness ==
    \E i \in ReqIds :
        /\ reqs[i].op = "profile" /\ reqs[i].email = "b@x.com"
        /\ Answered(reqs[i], 404)
        /\ Len(users) = 1 /\ users[1].email = "a@x.com"
        /\ users[1].profile = None

\* ------------------------------------------------------------------ C28
\* C28: a login request without email or password is answered 400; else one
\* for an email without an account is answered 404; else, once the
\* comparison has settled, one whose password is not the account's is
\* answered 401 and one whose password is the account's is answered 200 with
\* the account's email and profile.
C28_LoginDecisionOrder ==
    [][\A i \in ReqIds :
        LET r == reqs[i]
        IN  /\ LoginRead(i) =>
                  IF r.email = "" \/ r.password = "" THEN Answered(reqs'[i], 400)
                  ELSE IF ~HasAccount(users, r.email) THEN Answered(reqs'[i], 404)
                  ELSE reqs'[i].stage = "comparing"
            /\ LoginCompare(i) =>
                  IF r.snap[1].password = BcryptHash(r.password)
                  THEN /\ Answered(reqs'[i], 200)
                       /\ reqs'[i].remail = r.email
                       /\ reqs'[i].rprofile = r.snap[1].profile
                  ELSE Answered(reqs'[i], 401)]_vars

\* ------------------------------------------------------ startup, with fairness
\* The server answers a request it has received and the browser runs the
\* callbacks of a settled fetch: the lookup of the restore effect eventually
\* completes or fails.
LiveSpec ==
    /\ Spec
    /\ WF_vars(\E i \in ReqIds : ListUsers(i))
    /\ WF_vars(\E i \in ReqIds : RestoreDone(i))

\* ------------------------------------------------------------------ C29
\* C29: while loading is true no page handler and no guard acts (the only
\* client steps are the end of the restore and another page load), loading
\* is true for as long as the lookup of the restore effect is pending, and
\* loading always becomes false again.
C29_PagesAfterRestore ==
    /\ [][loading =>
            \/ ~loading'
            \/ \E p \in Paths, up \in BOOLEAN : Reload(p, up)
            \/ UNCHANGED <<currentUser, profile, marker, path, saving, issued, last>>]_vars
    /\ [](\A i \in ReqIds : (reqs[i].op = "users" /\ ~reqs[i].orphan) => loading)
    /\ (loading ~> ~loading)

C29_Witness ==
    /\ last = Result("restore", "a@x.com", 0)
    /\ ~loading
    /\ currentUser = "a@x.com" /\ marker = "a@x.com"
    /\ path = "/setup"

\* ------------------------------------------------------------------ C30
\* C30: the step that takes an ok answer of login, signup or google login
\* leaves the location on /dashboard when the session it sets has a profile
\* and on /setup when it has none; and whenever a user is current and the
\* pages are rendered, the location is not the auth page.
C30_NavigationAfterLogin ==
    /\ [][\A i \in ReqIds :
            ((LoginDone(i) \/ SignupDone(i) \/ GoogleDone(i)) /\ Ok(reqs[i].status)) =>
                /\ currentUser' # NoEmail
                /\ path' = IF profile' # None THEN "/dashboard" ELSE "/setup"]_vars
    /\ []((~loading /\ currentUser # NoEmail) => path # "/login")

C30_Witness ==
    /\ last = Result("login", "a@x.com", 200)
    /\ currentUser = "a@x.com" /\ profile # None
    /\ path = "/dashboard"
    /\ InFlight(reqs) = {}

\* ------------------------------------------------------------------ C31
\* C31: when the saveProfile submitted from the profile-setup page fails
\* (transport failure or a non-2xx answer) and the session is still the one
\* that submitted it (same current email, no cached profile), the cached
\* profile stays None, saveProfile hands nothing back to the page, and the
\* navigate('/dashboard') of handleSubmit is turned back to /setup by the
\* guard; in no state is the dashboard on screen without a cached profile.
C31_FailedSaveStaysOnSetup ==
    /\ [][\A i \in ReqIds :
            (/\ SaveDone(i)
             /\ ~Ok(reqs[i].status)
             /\ currentUser # NoEmail /\ currentUser = reqs[i].email
             /\ profile = None)
                => /\ profile' = None
                   /\ Returned(last') = "undefined"
                   /\ path' = "/setup"
                   /\ UNCHANGED <<currentUser, marker>>]_vars
    /\ []((~loading /\ path = "/dashboard") => profile # None)

\* A save of a@x.com answered by a transport failure was processed: still on
\* /setup with no cached profile, and the store holds no profile either.
C31_Witness ==
    /\ last = Result("profile", "a@x.com", 0)
    /\ currentUser = "a@x.com" /\ marker = "a@x.com"
    /\ profile = None
    /\ path = "/setup"
    /\ ~saving
    /\ StoreProfile(users, "a@x.com") = None
    /\ InFlight(reqs) = {}

\* ------------------------------------------------------------------ C32
\* The client and server of Spec, where nothing is invoked from the pages
\* while the last thing the user did is a logout: every request still in
\* flight in such a state was issued before that logout.
AfterLogout == last.op = "logout"

AfterLogoutNext ==
    \/ Server
    \/ \E e \in Emails, p \in Passwords, up \in BOOLEAN : ~AfterLogout /\ HandleLogin(e, p, up)
    \/ \E e \in Emails, p \in Passwords, up \in BOOLEAN : ~AfterLogout /\ HandleSignup(e, p, up)
    \/ \E tok \in GoogleTokens, up \in BOOLEAN : ~AfterLogout /\ HandleGoogleSuccess(tok, up)
    \/ \E pd \in ProfileInputs, up \in BOOLEAN : ~AfterLogout /\ HandleSubmit(pd, up)
    \/ \E i \in ReqIds : LoginDone(i)
    \/ \E i \in ReqIds : SignupDone(i)
    \/ \E i \in ReqIds : GoogleDone(i)
    \/ \E i \in ReqIds : SaveDone(i)
    \/ \E i \in ReqIds : RestoreDone(i)
    \/ Logout
    \/ \E p \in Paths, up \in BOOLEAN : Reload(p, up)

AfterLogoutSpec == Init /\ [][AfterLogoutNext]_vars

\* C32: after a logout, and with no login, signup or googleLogin invoked
\* since, every step leaves the session Anonymous: no current email, no
\* marker, no cached profile, whatever answer of an earlier request is
\* processed.
C32_LogoutIsFinal ==
    [][AfterLogout =>
          /\ currentUser' = NoEmail
          /\ marker' = NoEmail
          /\ profile' = None]_vars

\* ------------------------------------------------------------------ C33
\* C33: whenever the ok answer of a login, signup or googleLogin is
\* processed, also while a session set up by an overlapping request already
\* exists, the current email, the marker and the cached profile after the
\* step are the three values of that one answer; so after the answer
\* processed last the session is the one it established, and the state never
\* pairs the email of one answer with the marker of another.
C33_LastResponseWins ==
    /\ [][\A i \in ReqIds :
            /\ (LoginDone(i) /\ Ok(reqs[i].status))
                  => <<currentUser', marker', profile'>>
                        = <<reqs[i].email, reqs[i].email, reqs[i].rprofile>>
            /\ (SignupDone(i) /\ Ok(reqs[i].status))
                  => <<currentUser', marker', profile'>>
                        = <<reqs[i].email, reqs[i].email, None>>
            /\ (GoogleDone(i) /\ Ok(reqs[i].status))
                  => <<currentUser', marker', profile'>>
                        = <<reqs[i].remail, reqs[i].remail, reqs[i].rprofile>>]_vars
    /\ []((last.op \in {"login", "signup", "google"} /\ Ok(last.status))
              => currentUser = last.arg /\ marker = last.arg)

\* Two overlapping operations: the ok answer of the signup of a@x.com is
\* still to be processed while the answer of the googleLogin of b@x.com,
\* issued from the same /login page, has already set up the session; the
\* session is wholly that of the answer processed last so far.
C33_Witness ==
    /\ last = Result("google", "b@x.com", 200)
    /\ currentUser = "b@x.com" /\ marker = "b@x.com" /\ profile = None
    /\ path = "/setup"
    /\ \E i \in ReqIds :
          /\ reqs[i].op = "signup" /\ reqs[i].email = "a@x.com"
          /\ Answered(reqs[i], 201) /\ ~reqs[i].orphan

\* ------------------------------------------------------------------ C34
\* C34: from every requested path (/, an unknown path and the three pages
\* included) and every session state, following the redirects reaches within
\* 3 steps a page that redirects no further, and that page is the one
\* allowed for the session state; exactly one of the three pages stays put
\* in each session state; a render changes the location only as the first
\* render of a load or right after the redirect of / or of an unknown path,
\* so no chain has more than two redirects and none cycles.
C34_RedirectsTerminate ==
    /\ [](LET q == Follow(path, currentUser, profile, 3)
          IN  /\ Route(q, currentUser, profile) = q
              /\ q = AllowedPage(SessionState(currentUser, profile)))
    /\ [](Cardinality({p \in Pages : Route(p, currentUser, profile) = p}) = 1)
    /\ [][path' # path => (last.op = "load" \/ last.arg \notin Pages)]_vars

\* / was requested by a signed-in user without profile: the catch-all route
\* has redirected to /login, and the guard of AuthPage is about to redirect
\* to /setup, where the chain ends.
C34_Witness ==
    /\ last = Result("route", "/", 0)
    /\ path = "/login"
    /\ currentUser = "a@x.com" /\ profile = None
    /\ Route(path, currentUser, profile) = "/setup"
    /\ Route("/setup", currentUser, profile) = "/setup"

\* ------------------------------------------------------------------ C35
\* signup, login and googleLogin of the Auth Service called with any
\* arguments (empty ones included) in any session state, Anonymous or
\* Authenticated, against a store that may already hold the account.
AuthCall(r, up) ==
    /\ CanFetch(reqs)
    /\ issued' = issued + 1
    /\ reqs' = Fetch(reqs, r, up)
    /\ UNCHANGED serverVars
    /\ UNCHANGED clientVars

SignupCall(e, p, up) == AuthCall(NewReq("signup", e, p, "", None), up)
LoginCall(e, p, up) == AuthCall(NewReq("login", e, p, "", None), up)
GoogleLoginCall(tok, up) == AuthCall(NewReq("google", NoEmail, "", tok, None), up)

AuthApiNext ==
    \/ \E e \in AnyEmails, p \in AnyPasswords, up \in BOOLEAN : SignupCall(e, p, up)
    \/ \E e \in AnyEmails, p \in AnyPasswords, up \in BOOLEAN : LoginCall(e, p, up)
    \/ \E tok \in AnyTokens, up \in BOOLEAN : GoogleLoginCall(tok, up)
    \/ \E i \in ReqIds : SignupRead(i)
    \/ \E i \in ReqIds : SignupWrite(i)
    \/ \E i \in ReqIds : LoginRead(i)
    \/ \E i \in ReqIds : LoginCompare(i)
    \/ \E i \in ReqIds : GoogleAuth(i)
    \/ \E i \in ReqIds : SignupDone(i)
    \/ \E i \in ReqIds : LoginDone(i)
    \/ \E i \in ReqIds : GoogleDone(i)

AuthApiSpec == ApiInit /\ [][AuthApiNext]_vars

\* C35: whenever signup, login or googleLogin ends in a failure (answer 400,
\* 401, 404, 409 or no answer from the transport), the function returns an
\* error message and the step leaves the current email, the cached profile
\* and the marker as they were, whoever is signed in.
C35_FailureLeavesSession ==
    [][\A i \in ReqIds :
          ((SignupDone(i) \/ LoginDone(i) \/ GoogleDone(i)) /\ ~Ok(reqs[i].status))
              => /\ Returned(last') = "error"
                 /\ last'.status = reqs[i].status
                 /\ UNCHANGED <<currentUser, profile, marker>>]_vars

\* a@x.com is signed in with a saved profile and a login for b@x.com, which
\* has no account, came back 404: the session of a@x.com is untouched.
C35_Witness ==
    /\ last = Result("login", "b@x.com", 404)
    /\ currentUser = "a@x.com" /\ marker = "a@x.com"
    /\ profile # None /\ profile = StoreProfile(users, "a@x.com")
    /\ ~HasAccount(users, "b@x.com")

\* ------------------------------------------------------------------ C36
\* C36: no step of a password login (the route's read and compare, the
\* client's handling of the answer), of GET /api/users or of a session
\* restore (the page load and the handling of its answer) changes
\* users.json, whatever the outcome: the accounts, their order and every
\* field of each are the same after the step as before it.
C36_ReadOnlyOperations ==
    [][/\ \A i \in ReqIds :
             (LoginRead(i) \/ LoginCompare(i) \/ LoginDone(i)
                \/ ListUsers(i) \/ RestoreDone(i)) => users' = users
       /\ \A e \in Emails, p \in Passwords, up \in BOOLEAN :
             HandleLogin(e, p, up) => users' = users
       /\ \A p \in Paths, up \in BOOLEAN :
             Reload(p, up) => users' = users]_vars

\* The session of b@x.com, an account created by google-auth, was restored
\* by a page load: the store holds the account as google-auth wrote it.
C36_Witness ==
    /\ last = Result("restore", "b@x.com", 200)
    /\ ~loading
    /\ currentUser = "b@x.com" /\ profile = None
    /\ \E t \in 0..MaxClock : users = <<NewGoogleUser("b@x.com", t)>>

====
